---- MODULE Spec2Model ----
(***************************************************************************)
(* A model of the leveled JSON logger of crit/log: Logger.With,            *)
(* Logger.output behind the severity methods, Logger.Fatal, and the        *)
(* standard-output sink (Spec, SpecWith); the same calls made by several   *)
(* goroutines at once (SpecConc, SpecConcFair); ToLevel (SpecLevel); the   *)
(* truncation of source paths (SpecPath); the remote sink's Write          *)
(* (SpecPost); SetupLogger (SpecSetup).                                    *)
(*                                                                         *)
(* Go values that the code handles by reference are modelled by reference: *)
(* a []any is a slice header (array, len) over a backing array kept in     *)
(* `arrays`, because With appends to the slices it finds in the receiver's *)
(* map (logger.go:108-111) and append reuses the backing array whenever    *)
(* its capacity allows.  Maps are never shared between Logger instances    *)
(* (With builds a new one, output installs a new one), so a map is a       *)
(* function from Keys to a value or Absent.                                *)
(***************************************************************************)
EXTENDS Integers, Sequences, FiniteSets, TLC

(***************************************************************************)
(* Bounds of the model.                                                    *)
(***************************************************************************)
\* Logger instances under Spec.
MaxLoggers == 2
\* Logger instances under SpecWith.
MaxWithLoggers == 4
\* Key/value pairs handed to With, over all calls, under SpecWith.
MaxSupplied == 5

(***************************************************************************)
(* levels.go                                                               *)
(***************************************************************************)
DebugLevel == 0
InfoLevel == 1
NoticeLevel == 2
WarningLevel == 3
ErrorLevel == 4
CriticalLevel == 5
AlertLevel == 6
EmergencyLevel == 7

Levels == DebugLevel..EmergencyLevel

logLevelLabels ==
    [l \in Levels |->
        CASE l = DebugLevel -> "debug"
          [] l = InfoLevel -> "info"
          [] l = NoticeLevel -> "notice"
          [] l = WarningLevel -> "warning"
          [] l = ErrorLevel -> "error"
          [] l = CriticalLevel -> "critical"
          [] l = AlertLevel -> "alert"
          [] l = EmergencyLevel -> "emergency"]

\* Level.String
LevelString(l) == logLevelLabels[l]

(***************************************************************************)
(* Values of type any, as the code tells them apart: With asks only        *)
(* whether a value is a []any (logger.go:108), json.Marshal only whether   *)
(* it can be encoded.  "ch" stands for a value json.Marshal rejects (a     *)
(* channel, a func).                                                       *)
(***************************************************************************)
Keys == {"k", "build"}
Scalars == {"v1", "v2", "ch", "u1", "u2"}
Unsupported == {"ch"}

Absent == [kind |-> "absent", val |-> "", arr |-> 0, len |-> 0]
Scalar(s) == [kind |-> "scalar", val |-> s, arr |-> 0, len |-> 0]
Slice(a, n) == [kind |-> "slice", val |-> "", arr |-> a, len |-> n]

\* A slice the caller built itself, []any{"u1", "u2"}: len 2, cap 2.
UserArray == [cap |-> 2, elems |-> <<Scalar("u1"), Scalar("u2")>>]
UserSlice == Slice(1, 2)

\* type Data map[string]any; Data.Log returns the map itself.
EmptyData == [k \in Keys |-> Absent]

\* The non-empty Data maps with values from vals that callers hand to With;
\* "build" is the key of SetupLogger (logger.go:228), left to it.
DataItems(vals) ==
    {d \in [Keys -> vals \cup {Absent}] : d # EmptyData /\ d["build"] = Absent}

VARIABLES
    loggers,   \* the Logger instances created so far, in order of creation
    arrays,    \* the heap of backing arrays of []any values
    ghost,     \* per Logger: what was supplied to it, and whether it was used
    call,      \* the most recent call and what it did
    exited,    \* the exit status once os.Exit ran, -1 before
    procs,     \* per goroutine: where it is inside With or output
    carried,   \* per Logger: the records written with fields, by goroutines
    net,       \* the remote sink: calls of Write, POST goroutines, stdout, log
    fn         \* a call of a pure function: its argument and its result

vars == <<loggers, arrays, ghost, call, exited, procs, carried, net, fn>>

\* What Spec and SpecWith leave alone: there every call runs to its end
\* before the next one starts, on the stdout sink.
aux == <<procs, carried, net, fn>>
AuxIdle ==
    /\ procs = <<>>
    /\ carried = <<>>
    /\ net = <<>>
    /\ fn = <<>>

(***************************************************************************)
(* What a field set looks like to a reader (json.Marshal, a test): slice   *)
(* headers followed into the heap.                                         *)
(***************************************************************************)
VAbsent == [kind |-> "absent", val |-> "", elems |-> <<>>]
VScalar(s) == [kind |-> "scalar", val |-> s, elems |-> <<>>]
VSeq(es) == [kind |-> "seq", val |-> "", elems |-> es]

RECURSIVE ViewOf(_, _)
ViewOf(v, arrs) ==
    CASE v.kind = "absent" -> VAbsent
      [] v.kind = "scalar" -> VScalar(v.val)
      [] v.kind = "slice" ->
            VSeq([i \in 1..v.len |-> ViewOf(arrs[v.arr].elems[i], arrs)])

DataView(data, arrs) == [k \in Keys |-> ViewOf(data[k], arrs)]
EmptyView == [k \in Keys |-> VAbsent]

(***************************************************************************)
(* Logger.With, logger.go:91-131                                           *)
(***************************************************************************)

\* The capacity append gives a new backing array when the old one is full:
\* the Go runtime doubles small slices (2 -> 4 -> 8).
GrowCap(oldcap) == 2 * oldcap

\* s = append(s, value); set[key] = s   (logger.go:110-111)
\* st is [set, arrays]; cur = set[key] is a slice.
AppendToSlice(st, key, value) ==
    LET cur == st.set[key]
        arr == st.arrays[cur.arr]
    IN  IF cur.len < arr.cap
        THEN \* room in the backing array: written in place, at index len
             LET elems == IF cur.len < Len(arr.elems)
                          THEN [arr.elems EXCEPT ![cur.len + 1] = value]
                          ELSE Append(arr.elems, value)
             IN  [set |-> [st.set EXCEPT ![key] = Slice(cur.arr, cur.len + 1)],
                  arrays |-> [st.arrays EXCEPT ![cur.arr].elems = elems]]
        ELSE \* full: a new backing array, the old elements copied
             LET new == [cap |-> GrowCap(arr.cap),
                         elems |-> Append(SubSeq(arr.elems, 1, cur.len), value)]
             IN  [set |-> [st.set EXCEPT
                             ![key] = Slice(Len(st.arrays) + 1, cur.len + 1)],
                  arrays |-> Append(st.arrays, new)]

\* set[key] = []any{current, value}   (logger.go:116)
NewPair(st, key, value) ==
    [set |-> [st.set EXCEPT ![key] = Slice(Len(st.arrays) + 1, 2)],
     arrays |-> Append(st.arrays, [cap |-> 2, elems |-> <<st.set[key], value>>])]

\* A slip: the test for a slice (logger.go:108) left out.
MergeKeyPairOnly(st, key, value) ==
    IF st.set[key].kind # "absent"
    THEN NewPair(st, key, value)
    ELSE [st EXCEPT !.set[key] = value]

\* The body of the inner loop, logger.go:105-121.
MergeKey(st, key, value) ==
    IF st.set[key].kind # "absent"
    THEN IF st.set[key].kind = "slice"
         THEN AppendToSlice(st, key, value)
         ELSE NewPair(st, key, value)
    ELSE [st EXCEPT !.set[key] = value]

\* for key, value := range node.Log(): the keys of one map are distinct and
\* MergeKey touches only its own key, so the order of iteration changes
\* nothing but the order of allocation; the keys are taken in one order.
RECURSIVE MergeNode(_, _, _)
MergeNode(st, node, keys) ==
    IF keys = {} THEN st
    ELSE LET key == CHOOSE k \in keys : TRUE
             nxt == IF node[key].kind = "absent" THEN st
                    ELSE MergeKey(st, key, node[key])
         IN  MergeNode(nxt, node, keys \ {key})

\* for _, node := range data   (logger.go:103)
RECURSIVE MergeAll(_, _)
MergeAll(st, data) ==
    IF data = <<>> THEN st
    ELSE MergeAll(MergeNode(st, Head(data), Keys), Tail(data))

\* set starts as a copy of the entries of l.data (logger.go:96-101).
CopyData(data) == [k \in Keys |-> data[k]]

\* A slip: the threshold of New's callers' default, not the receiver's.
DerivedAtNotice(l, set) ==
    [level |-> NoticeLevel, app |-> l.app, data |-> set, out |-> l.out,
     mutex |-> FALSE]

\* The Logger that With returns (logger.go:125-130); its mutex is a new one.
Derived(l, set) ==
    [level |-> l.level, app |-> l.app, data |-> set, out |-> l.out,
     mutex |-> FALSE]

(***************************************************************************)
(* Logger.output, logger.go:134-179                                        *)
(***************************************************************************)

\* A slip: <= for <.
GatedInclusive(level, threshold) == level <= threshold

\* if level < l.level   (logger.go:138)
Gated(level, threshold) == level < threshold

\* A slip: the gated path returns without resetting the buffer.
GatedKeep(data) == data

\* l.data = make(map[string]any) on the gated path (logger.go:141)
GatedReset(data) == EmptyData

\* A slip: the copy loop left out, the record keeps its empty map.
SnapshotNothing(data) == EmptyData

\* for key, value := range l.data { out.Data[key] = value }  (logger.go:164-166)
\* The values are copied as they are: a slice keeps its backing array.
Snapshot(data) == [k \in Keys |-> data[k]]

\* A slip: the buffer is kept after the snapshot.
EmitKeep(data) == data

\* l.data = make(map[string]any) after the snapshot (logger.go:168)
EmitReset(data) == EmptyData

\* Whether json.Marshal can encode a value.
RECURSIVE Encodable(_, _)
Encodable(v, arrs) ==
    CASE v.kind = "absent" -> TRUE
      [] v.kind = "scalar" -> v.val \notin Unsupported
      [] v.kind = "slice" ->
            \A i \in 1..v.len : Encodable(arrs[v.arr].elems[i], arrs)

Bytes(kind, app, level, hasData, data) ==
    [kind |-> kind, app |-> app, level |-> level, hasData |-> hasData,
     data |-> data]

\* data, err := json.Marshal(out)   (logger.go:172): the bytes and whether
\* there is an error; with an error the bytes are nil.  WriteLog.Data is
\* tagged omitempty (logger.go:186): an empty map leaves no "data" member.
Marshal(out, arrs) ==
    IF \A k \in Keys : Encodable(out.data[k], arrs)
    THEN [err |-> FALSE,
          data |-> Bytes("json", out.app, out.level,
                         \E k \in Keys : out.data[k].kind # "absent",
                         DataView(out.data, arrs))]
    ELSE [err |-> TRUE, data |-> Bytes("nil", "", "", FALSE, EmptyView)]

\* A slip: the error of json.Marshal dropped, the nil bytes written.
FallbackMissing(m) == m.data

\* if err != nil { data = []byte("Logger unable to marshal ...") }
\* (logger.go:174-176)
Fallback(m) ==
    IF m.err THEN Bytes("fallback", "", "", FALSE, EmptyView) ELSE m.data

\* A slip: a failed Write is tried again.
SinkWriteRetry(sink, payload, err) ==
    IF err
    THEN <<[sink |-> sink, payload |-> payload, err |-> TRUE],
           [sink |-> sink, payload |-> payload, err |-> FALSE]>>
    ELSE <<[sink |-> sink, payload |-> payload, err |-> FALSE]>>

\* _, _ = l.out.Write(data)   (logger.go:178; stdOutWriter.Write,
\* writers.go:49-51).  The Write calls made, each with the error it returned.
SinkWrite(sink, payload, err) ==
    <<[sink |-> sink, payload |-> payload, err |-> err]>>

\* The whole of output on Logger l: the Logger afterwards and the Writes done.
Output(l, level, arrs, err) ==
    IF Gated(level, l.level)
    THEN [logger |-> [l EXCEPT !.data = GatedReset(l.data)],
          gated |-> TRUE,
          writes |-> <<>>]
    ELSE LET out == [app |-> l.app, level |-> LevelString(level),
                     data |-> Snapshot(l.data)]
         IN  [logger |-> [l EXCEPT !.data = EmitReset(l.data)],
              gated |-> FALSE,
              writes |-> SinkWrite(l.out, Fallback(Marshal(out, arrs)), err)]

\* A slip: no exit when the sink's Write failed.
FatalExitIfWritten(writes) ==
    IF writes # <<>> /\ writes[1].err THEN -1 ELSE 1

\* os.Exit(1) once output has returned, whatever output did (logger.go:87).
FatalExit(writes) == 1

(***************************************************************************)
(* The state machine.                                                      *)
(***************************************************************************)
AppName == "app"
NoCall == [op |-> "none", l |-> 0, level |-> 0, first |-> FALSE,
           pending |-> EmptyView, gated |-> FALSE, writes |-> <<>>]

\* New(app, logLevel)   (logger.go:34-40): no fields, the stdout sink.
New(app, logLevel) ==
    [level |-> logLevel, app |-> app, data |-> EmptyData, out |-> "stdout",
     mutex |-> FALSE]

RootGhost ==
    [parent |-> 0, own |-> 0, hist |-> <<>>, merged |-> EmptyView,
     used |-> FALSE, chain |-> TRUE]

Init ==
    /\ \E t \in Levels : loggers = <<New(AppName, t)>>
    /\ arrays = <<UserArray>>
    /\ ghost = <<RootGhost>>
    /\ call = NoCall
    /\ exited = -1
    /\ AuxIdle

Ids == 1..Len(loggers)

\* The pairs one Data supplies.
RECURSIVE NodePairs(_, _, _)
NodePairs(node, keys, arrs) ==
    IF keys = {} THEN <<>>
    ELSE LET key == CHOOSE k \in keys : TRUE
         IN  (IF node[key].kind = "absent" THEN <<>>
              ELSE <<[key |-> key, val |-> ViewOf(node[key], arrs)]>>)
             \o NodePairs(node, keys \ {key}, arrs)

\* The pairs a With call supplies, in argument order.
RECURSIVE Supplied(_, _)
Supplied(data, arrs) ==
    IF data = <<>> THEN <<>>
    ELSE NodePairs(Head(data), Keys, arrs) \o Supplied(Tail(data), arrs)

\* A slip: the merged set stored in the receiver as well.
WithLoggersInPlace(ls, p, set) ==
    Append([ls EXCEPT ![p].data = set], Derived(ls[p], set))

\* What With leaves behind: the Loggers there were, untouched, and the new
\* one it returns.
WithLoggers(ls, p, set) == Append(ls, Derived(ls[p], set))

\* d = loggers[p].With(data...)
With(p, data) ==
    /\ exited = -1
    /\ LET st == MergeAll([set |-> CopyData(loggers[p].data), arrays |-> arrays],
                          data)
       IN  /\ loggers' = WithLoggers(loggers, p, st.set)
           /\ arrays' = st.arrays
           /\ ghost' = Append(ghost,
                  [parent |-> p,
                   own |-> Len(Supplied(data, arrays)),
                   hist |-> (IF ghost[p].used THEN <<>> ELSE ghost[p].hist)
                            \o Supplied(data, arrays),
                   merged |-> DataView(st.set, st.arrays),
                   used |-> FALSE,
                   chain |-> ghost[p].chain /\ p = Len(loggers)])
    /\ call' = [NoCall EXCEPT !.op = "With", !.l = p]
    /\ UNCHANGED <<exited, aux>>

\* One of Debug, Info, Notice, Warn, Error, Critical, Alert, Emergency on
\* loggers[i]  (logger.go:43-82); err: whether the sink's Write fails.
Severity(i, level, err) ==
    /\ exited = -1
    /\ LET r == Output(loggers[i], level, arrays, err)
       IN  /\ loggers' = [loggers EXCEPT ![i] = r.logger]
           /\ call' = [op |-> "Severity", l |-> i, level |-> level,
                       first |-> ~ghost[i].used,
                       pending |-> DataView(loggers[i].data, arrays),
                       gated |-> r.gated, writes |-> r.writes]
    /\ ghost' = [ghost EXCEPT ![i].used = TRUE]
    /\ UNCHANGED <<arrays, exited, aux>>

\* Fatal on loggers[i]   (logger.go:85-88)
Fatal(i, err) ==
    /\ exited = -1
    /\ LET r == Output(loggers[i], EmergencyLevel, arrays, err)
       IN  /\ loggers' = [loggers EXCEPT ![i] = r.logger]
           /\ call' = [op |-> "Fatal", l |-> i, level |-> EmergencyLevel,
                       first |-> ~ghost[i].used,
                       pending |-> DataView(loggers[i].data, arrays),
                       gated |-> r.gated, writes |-> r.writes]
           /\ exited' = FatalExit(r.writes)
    /\ ghost' = [ghost EXCEPT ![i].used = TRUE]
    /\ UNCHANGED <<arrays, aux>>

(***************************************************************************)
(* Spec: every threshold, every severity method, the sink's Write failing  *)
(* or not, on a root Logger and the Loggers derived from it by a With of   *)
(* at most one Data, whose value json.Marshal accepts ("v1") or not        *)
(* ("ch").                                                                 *)
(***************************************************************************)
SmallLists ==
    {<<>>} \cup {<<d>> : d \in DataItems({Scalar("v1"), Scalar("ch")})}

Next ==
    \/ \E p \in Ids, data \in SmallLists :
          Len(loggers) < MaxLoggers /\ With(p, data)
    \/ \E i \in Ids, level \in Levels, err \in BOOLEAN : Severity(i, level, err)
    \/ \E i \in Ids, err \in BOOLEAN : Fatal(i, err)

Spec == Init /\ [][Next]_vars

(***************************************************************************)
(* SpecWith: With alone, on any Logger created so far, with any list of    *)
(* Data whose values are two scalars or the caller's own slice.            *)
(***************************************************************************)
WithValues == {Scalar("v1"), Scalar("v2"), UserSlice}

\* The pairs handed to With so far.
RECURSIVE SuppliedSoFar(_)
SuppliedSoFar(n) == IF n = 0 THEN 0 ELSE ghost[n].own + SuppliedSoFar(n - 1)

ItemLists(n) == UNION {[1..m -> DataItems(WithValues)] : m \in 0..n}

InitWith ==
    /\ loggers = <<New(AppName, NoticeLevel)>>
    /\ arrays = <<UserArray>>
    /\ ghost = <<RootGhost>>
    /\ call = NoCall
    /\ exited = -1
    /\ AuxIdle

NextWith ==
    \E p \in Ids, data \in ItemLists(MaxSupplied - SuppliedSoFar(Len(loggers))) :
        Len(loggers) < MaxWithLoggers /\ With(p, data)

SpecWith == InitWith /\ [][NextWith]_vars

(***************************************************************************)
(* Properties.                                                             *)
(***************************************************************************)
IsCall == call.op \in {"Severity", "Fatal"}
Payload == call.writes[1].payload

RECURSIVE ViewEncodable(_)
ViewEncodable(v) ==
    CASE v.kind = "absent" -> TRUE
      [] v.kind = "scalar" -> v.val \notin Unsupported
      [] v.kind = "seq" -> \A i \in 1..Len(v.elems) : ViewEncodable(v.elems[i])

\* C1: a severity call at level L on a Logger with threshold T does exactly
\* one Write, on that Logger's sink, when L >= T, and no Write when L < T.
C1_GateDecidesWrite ==
    IsCall =>
        IF call.level >= loggers[call.l].level
        THEN Len(call.writes) = 1 /\ call.writes[1].sink = loggers[call.l].out
        ELSE call.writes = <<>>

\* A call exactly at the threshold, which wrote.
C1_Witness ==
    /\ call.op = "Severity"
    /\ call.level = loggers[call.l].level
    /\ call.level = NoticeLevel
    /\ Len(call.writes) = 1

\* C2: after any severity call the buffer of the Logger it was made on is
\* empty, gated or not.
C2_BufferEmptyAfterCall ==
    IsCall => loggers[call.l].data = EmptyData

\* A gated call on a Logger that had fields pending.
C2_Witness ==
    /\ call.op = "Severity"
    /\ call.gated
    /\ call.pending # EmptyView
    /\ loggers[call.l].data = EmptyData

\* A record, not the fallback text, was written by the last call.
EmittedRecord ==
    IsCall /\ ~call.gated /\ call.writes # <<>> /\ Payload.kind = "json"

\* The last call was made on a Logger that With returned with fields.
OnDerived ==
    ghost[call.l].parent # 0 /\ ghost[call.l].merged # EmptyView

SameShape(v, w) ==
    \A k \in Keys :
        /\ v[k].kind = w[k].kind
        /\ Len(v[k].elems) = Len(w[k].elems)

\* C4 as stated: every severity call that passes the gate on a Logger made
\* by With emits a record carrying the field set With merged.
C4_EveryCallCarries ==
    (EmittedRecord /\ OnDerived) => Payload.data = ghost[call.l].merged

\* C4 amended: of the severity calls on a Logger made by With only the
\* first can carry the merged fields: if it passes the gate its record
\* carries the fields pending on the Logger (key for key those With merged);
\* every later call that passes the gate emits a record with no fields.
C4_FirstCallCarries ==
    (EmittedRecord /\ OnDerived) =>
        IF call.first
        THEN /\ Payload.hasData
             /\ Payload.data = call.pending
             /\ SameShape(call.pending, ghost[call.l].merged)
        ELSE ~Payload.hasData /\ Payload.data = EmptyView

\* A second call that passed the gate on a Logger made by With with fields.
C4_Witness ==
    /\ EmittedRecord
    /\ OnDerived
    /\ ~call.first
    /\ call.op = "Severity"
    /\ ~Payload.hasData

\* C5: the record a severity call emits carries exactly the fields pending
\* on the Logger when the call started, and on any call after the first on
\* a Logger nothing is pending: an emission or a gated call retains nothing.
C5_ConsumedOnce ==
    IsCall =>
        /\ EmittedRecord =>
              /\ Payload.data = call.pending
              /\ Payload.hasData = (call.pending # EmptyView)
        /\ ~call.first => call.pending = EmptyView

\* A first call that carried fields.
C5_Witness ==
    /\ EmittedRecord
    /\ call.first
    /\ Payload.hasData
    /\ Payload.data = ghost[call.l].merged
    /\ loggers[call.l].data = EmptyData

\* C8: Fatal ends in os.Exit(1) whatever the threshold and whether or not
\* json.Marshal or the sink's Write failed; when the process exits the one
\* Write of the emergency record (or of the fallback text) has been made;
\* no step is taken once the process has exited.
C8_FatalExits ==
    /\ [](call.op = "Fatal" =>
            /\ exited = 1
            /\ ~call.gated
            /\ call.level = EmergencyLevel
            /\ Len(call.writes) = 1
            /\ Payload.kind \in {"json", "fallback"}
            /\ Payload.kind = "json" => Payload.level = "emergency")
    /\ [](exited # -1 => call.op = "Fatal")
    /\ [][exited = -1]_vars

\* Fatal on a Logger thresholded at emergency, the record not serializable
\* and the Write failing: the process exited with status 1.
C8_Witness ==
    /\ call.op = "Fatal"
    /\ loggers[call.l].level = EmergencyLevel
    /\ Payload.kind = "fallback"
    /\ call.writes[1].err
    /\ exited = 1

\* C9: when the record of a call that passed the gate cannot be serialized,
\* the call still makes exactly one Write, of the fallback text; it returns
\* (no exit unless it is Fatal) and the buffer is cleared.
C9_FallbackWritten ==
    (IsCall /\ call.level >= loggers[call.l].level
            /\ \E k \in Keys : ~ViewEncodable(call.pending[k])) =>
        /\ Len(call.writes) = 1
        /\ Payload.kind = "fallback"
        /\ call.writes[1].sink = loggers[call.l].out
        /\ loggers[call.l].data = EmptyData
        /\ call.op = "Severity" => exited = -1

\* A severity call whose pending fields held a value json.Marshal rejects.
C9_Witness ==
    /\ call.op = "Severity"
    /\ ~call.gated
    /\ \E k \in Keys : ~ViewEncodable(call.pending[k])
    /\ Payload.kind = "fallback"

\* C10: a severity call whose Write fails makes that one Write and returns,
\* leaving the Logger exactly as a successful Write leaves it: the buffer
\* empty, the name, level and sink as before.
C10_WriteErrorDiscarded ==
    [][(call'.op = "Severity" /\ call'.writes # <<>> /\ call'.writes[1].err) =>
          LET i == call'.l
          IN  /\ Len(call'.writes) = 1
              /\ exited' = -1
              /\ loggers'[i] = [loggers[i] EXCEPT !.data = EmptyData]
              /\ loggers'[i]
                   = Output(loggers[i], call'.level, arrays, FALSE).logger
              /\ \A j \in Ids \ {i} : loggers'[j] = loggers[j]]_vars

\* A severity call with fields pending whose Write failed.
C10_Witness ==
    /\ call.op = "Severity"
    /\ call.writes # <<>>
    /\ call.writes[1].err
    /\ call.pending # EmptyView
    /\ exited = -1

(***************************************************************************)
(* With, under SpecWith.  ghost[l].hist is the list of pairs handed to     *)
(* the With calls that built Logger l, in call order and argument order;   *)
(* ghost[l].chain says that the Loggers 1..l are one chain                 *)
(* New().With(..).With(..)...                                              *)
(***************************************************************************)
Last == Len(loggers)

ValuesFor(hist, k) ==
    LET sel == SelectSeq(hist, LAMBDA e : e.key = k)
    IN  [i \in 1..Len(sel) |-> sel[i].val]

\* A key seen once maps to its value, a key seen n >= 2 times to the
\* sequence of the n values.
CountValue(vs) ==
    CASE Len(vs) = 0 -> VAbsent
      [] Len(vs) = 1 -> vs[1]
      [] OTHER -> VSeq(vs)

CountMerge(hist) == [k \in Keys |-> CountValue(ValuesFor(hist, k))]

\* The merge on plain values: absent -> the value; a sequence -> the value
\* appended; anything else -> [old, new].
RECURSIVE FoldValue(_, _)
FoldValue(acc, vs) ==
    IF vs = <<>> THEN acc
    ELSE FoldValue(CASE acc.kind = "absent" -> Head(vs)
                     [] acc.kind = "seq" -> VSeq(Append(acc.elems, Head(vs)))
                     [] OTHER -> VSeq(<<acc, Head(vs)>>),
                   Tail(vs))

FoldMerge(hist) == [k \in Keys |-> FoldValue(VAbsent, ValuesFor(hist, k))]

AllScalar(hist) == \A i \in 1..Len(hist) : hist[i].val.kind = "scalar"

\* C3 as stated: after any chain of With calls from a fresh Logger the last
\* Logger's fields map every key seen once to its value and every key seen
\* n >= 2 times to the n values in the order supplied.
C3_CountMergeAlways ==
    ghost[Last].chain =>
        DataView(loggers[Last].data, arrays) = CountMerge(ghost[Last].hist)

\* C3 amended: the last Logger's fields are the merge of the pairs in
\* order (absent -> value, sequence -> append, else [old, new]); when no
\* supplied value is itself a []any this is: once -> the value, n >= 2
\* times -> the n values in order.
C3_MergeInOrder ==
    ghost[Last].chain =>
        /\ DataView(loggers[Last].data, arrays) = FoldMerge(ghost[Last].hist)
        /\ AllScalar(ghost[Last].hist) =>
              DataView(loggers[Last].data, arrays) = CountMerge(ghost[Last].hist)

\* A chain of three With calls that supplied one key four times or more:
\* scalar, pair, append into a new array, append in place.
C3_Witness ==
    /\ Last = 4
    /\ ghost[Last].chain
    /\ AllScalar(ghost[Last].hist)
    /\ \E k \in Keys :
          /\ loggers[2].data[k].kind = "scalar"
          /\ loggers[3].data[k].kind = "slice"
          /\ loggers[4].data[k].kind = "slice"
          /\ loggers[4].data[k].len >= 4
          /\ DataView(loggers[4].data, arrays)[k].elems[1] = VScalar("v2")
          /\ DataView(loggers[4].data, arrays)[k].elems[2] = VScalar("v1")

\* C6: With leaves its receiver as it was: the same name, level, sink and
\* buffer, the same fields for a reader, nothing written, and a severity call
\* on the receiver would emit what it would have emitted before.
C6_WithKeepsReceiver ==
    [][call'.op = "With" =>
          LET p == call'.l
          IN  /\ loggers'[p] = loggers[p]
              /\ DataView(loggers'[p].data, arrays')
                   = DataView(loggers[p].data, arrays)
              /\ call'.writes = <<>>
              /\ Output(loggers'[p], ErrorLevel, arrays', FALSE).writes
                   = Output(loggers[p], ErrorLevel, arrays, FALSE).writes]_vars

\* A With that appended in place: the new Logger's sequence lies in the
\* receiver's backing array, one element longer.
C6_Witness ==
    /\ call.op = "With"
    /\ \E k \in Keys :
          /\ loggers[call.l].data[k].kind = "slice"
          /\ loggers[Last].data[k].kind = "slice"
          /\ loggers[Last].data[k].arr = loggers[call.l].data[k].arr
          /\ loggers[Last].data[k].len > loggers[call.l].data[k].len

\* C7: what a Logger made by With would emit is the merge it was made with,
\* whatever other Loggers are derived from its parent before or after
\* (stated for the Loggers built from scalar values alone).
C7_BuffersNotShared ==
    \A c \in Ids :
        AllScalar(ghost[c].hist) =>
        Output(loggers[c], ErrorLevel, arrays, FALSE).writes[1].payload.data
            = ghost[c].merged

(***************************************************************************)
(* SpecConc: goroutines calling With and the severity methods on the same  *)
(* Loggers at the same time.  A goroutine is inside at most one call; the  *)
(* call goes through the statements of the code that touch the Logger one  *)
(* at a time, and the goroutines interleave freely between them.           *)
(*                                                                         *)
(* The range loops of With and output evaluate l.data once and then walk   *)
(* a map nobody writes to any more (With fills its own `set` before the    *)
(* new Logger exists, output fills its own out.Data), so one read of       *)
(* l.data is one step.                                                     *)
(***************************************************************************)
\* Goroutines under SpecConc.
NumGoroutines == 2
\* Logger instances under SpecConc.
MaxConcLoggers == 2

Goroutines == 1..NumGoroutines

Idle == [pc |-> "idle", l |-> 0, data |-> EmptyData, holds |-> FALSE]

\* A slip: the Unlock deferred to the return of output, after the Write.
EmitStepsDeferred == <<"lock", "copy", "reset", "marshal", "write", "unlock">>

\* The statements of output when the level passes the gate, in order:
\* Lock (160), the copy loop (164-166), the reset (168), Unlock (170),
\* json.Marshal (172-176), Write (178).
EmitSteps == <<"lock", "copy", "reset", "unlock", "marshal", "write">>

\* A slip: no deferred Unlock on the gated path.
GatedStepsNoUnlock == <<"glock", "greset">>

\* The statements of output when the level is gated (logger.go:138-143):
\* Lock, the reset, and the deferred Unlock that runs at the return.
GatedSteps == <<"glock", "greset", "gunlock">>

\* The statements of With that touch the receiver: the copy of l.data
\* (logger.go:99-101), then the merge and the new Logger (103-130).
WithSteps == <<"wread", "wmerge">>

\* The statement after pc, "idle" when the call returns.
After(steps, pc) ==
    IF \E i \in 1..(Len(steps) - 1) : steps[i] = pc
    THEN steps[(CHOOSE i \in 1..(Len(steps) - 1) : steps[i] = pc) + 1]
    ELSE "idle"

AfterPc(pc) ==
    IF \E i \in 1..Len(EmitSteps) : EmitSteps[i] = pc THEN After(EmitSteps, pc)
    ELSE IF \E i \in 1..Len(GatedSteps) : GatedSteps[i] = pc
         THEN After(GatedSteps, pc)
         ELSE After(WithSteps, pc)

\* A slip: Lock that does not wait.
MutexFreeAlways(l) == TRUE

\* sync.Mutex: Lock returns only when nobody holds the mutex.
MutexFree(l) == ~l.mutex

\* What the goroutines hand to With under SpecConc.
ConcData == <<[k \in Keys |-> IF k = "k" THEN Scalar("v1") ELSE Absent]>>

\* g goes on to its next statement, or returns from its call.
Goto(g, holds, data) ==
    LET pc == AfterPc(procs[g].pc)
    IN  [procs EXCEPT ![g] =
            IF pc = "idle" THEN Idle
            ELSE [pc |-> pc, l |-> procs[g].l, data |-> data, holds |-> holds]]

\* The goroutines that are inside With.
InWith == {g \in Goroutines : procs[g].pc \in {"wread", "wmerge"}}

InitConc ==
    /\ loggers = <<New(AppName, NoticeLevel)>>
    /\ arrays = <<UserArray>>
    /\ ghost = <<RootGhost>>
    /\ call = NoCall
    /\ exited = -1
    /\ procs = [g \in Goroutines |-> Idle]
    /\ carried = <<0>>
    /\ net = <<>>
    /\ fn = <<>>

\* g calls a severity method on loggers[i]: the gate (logger.go:138).
StartSeverity(g, i, level) ==
    /\ procs[g].pc = "idle"
    /\ procs' = [procs EXCEPT ![g] =
                    [Idle EXCEPT !.l = i,
                                 !.pc = IF Gated(level, loggers[i].level)
                                        THEN GatedSteps[1] ELSE EmitSteps[1]]]
    /\ UNCHANGED <<loggers, arrays, ghost, call, exited, carried, net, fn>>

\* g calls With on loggers[p].
StartWith(g, p) ==
    /\ procs[g].pc = "idle"
    /\ procs' = [procs EXCEPT ![g] = [Idle EXCEPT !.l = p, !.pc = WithSteps[1]]]
    /\ UNCHANGED <<loggers, arrays, ghost, call, exited, carried, net, fn>>

\* l.mutex.Lock()   (logger.go:139, 160)
Lock(g) ==
    /\ procs[g].pc \in {"lock", "glock"}
    /\ MutexFree(loggers[procs[g].l])
    /\ loggers' = [loggers EXCEPT ![procs[g].l].mutex = TRUE]
    /\ procs' = Goto(g, TRUE, procs[g].data)
    /\ UNCHANGED <<arrays, ghost, call, exited, carried, net, fn>>

\* for key, value := range l.data { out.Data[key] = value }
Copy(g) ==
    /\ procs[g].pc = "copy"
    /\ procs' = Goto(g, procs[g].holds, Snapshot(loggers[procs[g].l].data))
    /\ UNCHANGED <<loggers, arrays, ghost, call, exited, carried, net, fn>>

\* l.data = make(map[string]any)   (logger.go:168, 141)
Reset(g) ==
    /\ procs[g].pc \in {"reset", "greset"}
    /\ loggers' = [loggers EXCEPT ![procs[g].l].data =
                      IF procs[g].pc = "reset" THEN EmitReset(@)
                      ELSE GatedReset(@)]
    /\ procs' = Goto(g, procs[g].holds, procs[g].data)
    /\ UNCHANGED <<arrays, ghost, call, exited, carried, net, fn>>

\* l.mutex.Unlock()   (logger.go:170; deferred, 140)
Unlock(g) ==
    /\ procs[g].pc \in {"unlock", "gunlock"}
    /\ loggers' = [loggers EXCEPT ![procs[g].l].mutex = FALSE]
    /\ procs' = Goto(g, FALSE, procs[g].data)
    /\ UNCHANGED <<arrays, ghost, call, exited, carried, net, fn>>

\* data, err := json.Marshal(out)   (logger.go:172-176)
MarshalOut(g) ==
    /\ procs[g].pc = "marshal"
    /\ procs' = Goto(g, procs[g].holds, procs[g].data)
    /\ UNCHANGED <<loggers, arrays, ghost, call, exited, carried, net, fn>>

\* _, _ = l.out.Write(data)   (logger.go:178)
WriteOut(g) ==
    /\ procs[g].pc = "write"
    /\ carried' = [carried EXCEPT ![procs[g].l] =
                      IF procs[g].data # EmptyData THEN @ + 1 ELSE @]
    /\ procs' = Goto(g, procs[g].holds, EmptyData)
    /\ UNCHANGED <<loggers, arrays, ghost, call, exited, net, fn>>

\* for key, value := range l.data { set[key] = value }: no Lock before it.
WithRead(g) ==
    /\ procs[g].pc = "wread"
    /\ procs' = Goto(g, FALSE, CopyData(loggers[procs[g].l].data))
    /\ UNCHANGED <<loggers, arrays, ghost, call, exited, carried, net, fn>>

\* The merge of the arguments into set, and the Logger With returns.
WithReturn(g) ==
    /\ procs[g].pc = "wmerge"
    /\ LET p == procs[g].l
           st == MergeAll([set |-> procs[g].data, arrays |-> arrays], ConcData)
       IN  /\ loggers' = WithLoggers(loggers, p, st.set)
           /\ arrays' = st.arrays
           /\ ghost' = Append(ghost,
                  [parent |-> p,
                   own |-> Len(Supplied(ConcData, arrays)),
                   hist |-> Supplied(ConcData, arrays),
                   merged |-> DataView(st.set, st.arrays),
                   used |-> FALSE,
                   chain |-> FALSE])
    /\ carried' = Append(carried, 0)
    /\ procs' = Goto(g, FALSE, EmptyData)
    /\ UNCHANGED <<call, exited, net, fn>>

NextConc ==
    \/ \E g \in Goroutines, i \in Ids, level \in {InfoLevel, ErrorLevel} :
          StartSeverity(g, i, level)
    \/ \E g \in Goroutines, p \in Ids :
          Len(loggers) + Cardinality(InWith) < MaxConcLoggers /\ StartWith(g, p)
    \/ \E g \in Goroutines : Lock(g)
    \/ \E g \in Goroutines : Copy(g)
    \/ \E g \in Goroutines : Reset(g)
    \/ \E g \in Goroutines : Unlock(g)
    \/ \E g \in Goroutines : MarshalOut(g)
    \/ \E g \in Goroutines : WriteOut(g)
    \/ \E g \in Goroutines : WithRead(g)
    \/ \E g \in Goroutines : WithReturn(g)

SpecConc == InitConc /\ [][NextConc]_vars

(***************************************************************************)
(* Properties of SpecConc.                                                 *)
(***************************************************************************)
\* The goroutines whose record for loggers[l] has its snapshot taken and is
\* not written yet, with fields in it.
Carrying(l) ==
    {g \in Goroutines :
        /\ procs[g].l = l
        /\ procs[g].pc \in {"reset", "unlock", "marshal", "write"}
        /\ procs[g].data # EmptyData}

\* C11: whatever the number of severity calls running on one Logger at the
\* same time, the fields pending on it go into at most one record, and
\* whole: of the records written and the snapshots taken for it at most one
\* has fields, and that one has exactly the set that was merged into the
\* Logger; every other record has none.
C11_SnapshotAtomic ==
    \A l \in Ids :
        /\ carried[l] + Cardinality(Carrying(l)) <= 1
        /\ \A g \in Carrying(l) :
              DataView(procs[g].data, arrays) = ghost[l].merged

\* Two calls about to write for the same Logger, one record with the fields
\* and one without.
C11_Witness ==
    \E g, h \in Goroutines :
        /\ procs[g].l = procs[h].l
        /\ procs[g].pc = "write" /\ procs[h].pc = "write"
        /\ procs[g].data # EmptyData
        /\ procs[h].data = EmptyData

(***************************************************************************)
(* SpecLevel: ToLevel, levels.go:46-55.  A string is the sequence of its   *)
(* runes; a rune is named by the one-character string that shows it, and   *)
(* "U+0130" names the capital I with a dot above, the one rune outside     *)
(* A-Z that unicode.ToLower sends to a letter of the labels ("i").         *)
(***************************************************************************)
\* Letters of a case variant that may be upper case, besides the variant
\* written all in capitals.
MaxUpper == 2

\* The runes unicode.ToLower changes, among those the model writes.
CasePairs ==
    {<<"U+0130", "i">>,
     <<"A", "a">>, <<"B", "b">>, <<"C", "c">>, <<"D", "d">>, <<"E",
     "e">>, <<"F", "f">>, <<"G", "g">>, <<"I", "i">>, <<"L", "l">>,
     <<"M", "m">>, <<"N", "n">>, <<"O", "o">>, <<"R", "r">>, <<"T",
     "t">>, <<"U", "u">>, <<"W", "w">>, <<"X", "x">>, <<"Y", "y">>}

\* unicode.ToLower
ToLowerRune(c) ==
    IF \E p \in CasePairs : p[1] = c
    THEN (CHOOSE p \in CasePairs : p[1] = c)[2]
    ELSE c

\* A slip: the argument looked up as it is.
ToLowerNone(value) == value

\* strings.ToLower
ToLower(value) == [i \in 1..Len(value) |-> ToLowerRune(value[i])]

\* The keys of logLevelValues (levels.go:31-40), rune by rune.
LabelRunes ==
    [l \in Levels |->
        CASE l = DebugLevel -> <<"d", "e", "b", "u", "g">>
          [] l = InfoLevel -> <<"i", "n", "f", "o">>
          [] l = NoticeLevel -> <<"n", "o", "t", "i", "c", "e">>
          [] l = WarningLevel -> <<"w", "a", "r", "n", "i", "n", "g">>
          [] l = ErrorLevel -> <<"e", "r", "r", "o", "r">>
          [] l = CriticalLevel -> <<"c", "r", "i", "t", "i", "c", "a", "l">>
          [] l = AlertLevel -> <<"a", "l", "e", "r", "t">>
          [] l = EmergencyLevel -> <<"e", "m", "e", "r", "g", "e", "n", "c", "y">>]

defaultLevel == NoticeLevel

\* level, ok := logLevelValues[value]
logLevelValues(value) ==
    IF \E l \in Levels : LabelRunes[l] = value
    THEN [ok |-> TRUE, level |-> CHOOSE l \in Levels : LabelRunes[l] = value]
    ELSE [ok |-> FALSE, level |-> DebugLevel]

ToLevel(value) ==
    LET r == logLevelValues(ToLower(value))
    IN  IF ~r.ok THEN defaultLevel ELSE r.level

\* The label of level l with the letters at the positions in up written in
\* upper case; an "i" among them as "U+0130" when dotted.
Variant(l, up, dotted) ==
    [i \in 1..Len(LabelRunes[l]) |->
        LET c == LabelRunes[l][i]
        IN  IF i \notin up THEN c
            ELSE IF dotted /\ c = "i" THEN "U+0130"
            ELSE (CHOOSE p \in CasePairs : p[2] = c /\ p[1] # "U+0130")[1]]

Masks(n) ==
    {up \in SUBSET (1..n) : Cardinality(up) <= MaxUpper} \cup {1..n}

\* The arguments that are a label in some letter case, each with its level.
LabelArgs ==
    {[arg |-> Variant(l, up, dotted), label |-> l] :
        l \in Levels, up \in Masks(9), dotted \in BOOLEAN}

\* Arguments that are no label in any letter case: the empty string of an
\* absent LOG_LEVEL, a label cut short, a label with a rune before or after
\* it, other words.
OtherArgs ==
    {[arg |-> a, label |-> -1] :
        a \in {<<>>, <<"w", "a", "r", "n">>, <<"f", "a", "t", "a", "l">>,
               <<"2">>, <<"W", "A", "R", "N">>}
              \cup {SubSeq(LabelRunes[l], 1, Len(LabelRunes[l]) - 1) : l \in Levels}
              \cup {Append(LabelRunes[l], "x") : l \in Levels}
              \cup {<<" ">> \o Variant(l, {1}, FALSE) : l \in Levels}}

InitLevel ==
    /\ loggers = <<>>
    /\ arrays = <<>>
    /\ ghost = <<>>
    /\ call = NoCall
    /\ exited = -1
    /\ procs = <<>>
    /\ carried = <<>>
    /\ net = <<>>
    /\ \E a \in LabelArgs \cup OtherArgs :
          fn = [op |-> "arg", arg |-> a.arg, label |-> a.label, result |-> -1]

CallToLevel ==
    /\ fn.op = "arg"
    /\ fn' = [fn EXCEPT !.op = "ToLevel", !.result = ToLevel(fn.arg)]
    /\ UNCHANGED <<loggers, arrays, ghost, call, exited, procs, carried, net>>

NextLevel == CallToLevel

SpecLevel == InitLevel /\ [][NextLevel]_vars

\* C12: ToLevel returns a level for every string: for a label in any letter
\* case the level of that label, for every other string, the empty one
\* included, Notice.
C12_ToLevelCaseInsensitive ==
    fn.op = "ToLevel" =>
        /\ fn.result \in Levels
        /\ fn.result = IF fn.label \in Levels THEN fn.label ELSE NoticeLevel

\* A label in mixed case whose level is not the default.
C12_Witness ==
    /\ fn.op = "ToLevel"
    /\ fn.label = WarningLevel
    /\ fn.arg = Variant(WarningLevel, {1, 4}, FALSE)
    /\ fn.result = WarningLevel

(***************************************************************************)
(* SpecPath: Src.TruncateFile (logger.go:201-216) and srcFileParse of the  *)
(* adapter (part_000:43-59), on a system whose filepath.Separator is "/".  *)
(* A path is the sequence of its runes.                                    *)
(***************************************************************************)
\* Runes of a path.
MaxPathLen == 5

Separator == "/"
PathRunes == {Separator, ".", "a", "b"}
Paths == UNION {[1..n -> PathRunes] : n \in 0..MaxPathLen}

\* The index of the last separator of path, 0 when it has none.
RECURSIVE LastSeparator(_, _)
LastSeparator(path, i) ==
    IF i = 0 THEN 0
    ELSE IF path[i] = Separator THEN i
    ELSE LastSeparator(path, i - 1)

\* filepath.Split: the path up to and with its last separator, and the rest.
Split(path) ==
    LET i == LastSeparator(path, Len(path))
    IN  [dir |-> SubSeq(path, 1, i), file |-> SubSeq(path, i + 1, Len(path))]

\* strings.FieldsFunc(s, r == filepath.Separator): the maximal runs of runes
\* that are no separator; cur is the run being read.
RECURSIVE FieldsFunc(_, _)
FieldsFunc(s, cur) ==
    IF s = <<>> THEN (IF cur = <<>> THEN <<>> ELSE <<cur>>)
    ELSE IF Head(s) = Separator
         THEN (IF cur = <<>> THEN <<>> ELSE <<cur>>) \o FieldsFunc(Tail(s), <<>>)
         ELSE FieldsFunc(Tail(s), Append(cur, Head(s)))

\* strings.Split(s, "/"): the runs between separators, empty ones too.
RECURSIVE SplitAll(_, _)
SplitAll(s, cur) ==
    IF s = <<>> THEN <<cur>>
    ELSE IF Head(s) = Separator
         THEN <<cur>> \o SplitAll(Tail(s), <<>>)
         ELSE SplitAll(Tail(s), Append(cur, Head(s)))

\* strings.Join(elems, "/")
RECURSIVE JoinSep(_)
JoinSep(elems) ==
    IF elems = <<>> THEN <<>>
    ELSE IF Len(elems) = 1 THEN elems[1]
    ELSE elems[1] \o <<Separator>> \o JoinSep(Tail(elems))

Dot == <<".">>
DotDot == <<".", ".">>

\* The elements filepath.Clean keeps: empty ones and "." dropped, ".." taking
\* back the element before it, and kept at the start of a path that is not
\* rooted.
RECURSIVE CleanElems(_, _, _)
CleanElems(elems, kept, rooted) ==
    IF elems = <<>> THEN kept
    ELSE LET e == Head(elems)
             nxt == IF e = <<>> \/ e = Dot THEN kept
                    ELSE IF e = DotDot
                         THEN IF kept # <<>> /\ kept[Len(kept)] # DotDot
                              THEN SubSeq(kept, 1, Len(kept) - 1)
                              ELSE IF rooted THEN kept ELSE Append(kept, e)
                         ELSE Append(kept, e)
         IN  CleanElems(Tail(elems), nxt, rooted)

\* filepath.Clean
Clean(path) ==
    IF path = <<>> THEN Dot
    ELSE LET rooted == path[1] = Separator
             out == (IF rooted THEN <<Separator>> ELSE <<>>)
                    \o JoinSep(CleanElems(SplitAll(path, <<>>), <<>>, rooted))
         IN  IF out = <<>> THEN Dot ELSE out

\* filepath.Join: the elements from the first non-empty one on, joined by
\* the separator and cleaned; "" when all are empty.
RECURSIVE Join(_)
Join(elems) ==
    IF elems = <<>> THEN <<>>
    ELSE IF Head(elems) = <<>> THEN Join(Tail(elems))
    ELSE Clean(JoinSep(elems))

\* A slip: the first directory for the last.
TruncateFileFirst(File) ==
    LET sp == Split(File)
        parts == FieldsFunc(sp.dir, <<>>)
    IN  IF Len(parts) > 0
        THEN Join(<<parts[1], sp.file>>)
        ELSE sp.file

\* Src.TruncateFile: the value of s.File afterwards (logger.go:201-216).
TruncateFile(File) ==
    LET sp == Split(File)
        parts == FieldsFunc(sp.dir, <<>>)
    IN  IF Len(parts) > 0
        THEN Join(<<parts[Len(parts)], sp.file>>)
        ELSE sp.file

\* srcFileParse (part_000:43-59)
srcFileParse(filename) ==
    LET sp == Split(filename)
        parts == FieldsFunc(sp.dir, <<>>)
    IN  IF Len(parts) > 0
        THEN Join(<<parts[Len(parts)], sp.file>>)
        ELSE sp.file

InitPath ==
    /\ loggers = <<>>
    /\ arrays = <<>>
    /\ ghost = <<>>
    /\ call = NoCall
    /\ exited = -1
    /\ procs = <<>>
    /\ carried = <<>>
    /\ net = <<>>
    /\ \E path \in Paths :
          fn = [arg |-> path, truncated |-> FALSE, file |-> <<>>,
                parsed |-> FALSE, name |-> <<>>]

\* s.File = fn.arg; s.TruncateFile()
CallTruncateFile ==
    /\ ~fn.truncated
    /\ fn' = [fn EXCEPT !.truncated = TRUE, !.file = TruncateFile(fn.arg)]
    /\ UNCHANGED <<loggers, arrays, ghost, call, exited, procs, carried, net>>

\* srcFileParse(fn.arg)
CallSrcFileParse ==
    /\ ~fn.parsed
    /\ fn' = [fn EXCEPT !.parsed = TRUE, !.name = srcFileParse(fn.arg)]
    /\ UNCHANGED <<loggers, arrays, ghost, call, exited, procs, carried, net>>

NextPath == CallTruncateFile \/ CallSrcFileParse

SpecPath == InitPath /\ [][NextPath]_vars

\* The positions of path, read off the path itself: where its filename
\* starts, and where its last directory segment starts and ends (0 when
\* there is none).
FileStart(path) ==
    CHOOSE i \in 1..(Len(path) + 1) :
        /\ \A j \in i..Len(path) : path[j] # Separator
        /\ i > 1 => path[i - 1] = Separator

SegmentEnd(path) ==
    LET in == {j \in 1..(FileStart(path) - 1) : path[j] # Separator}
    IN  IF in = {} THEN 0 ELSE CHOOSE j \in in : \A k \in in : k <= j

SegmentStart(path) ==
    LET e == SegmentEnd(path)
    IN  CHOOSE i \in 1..e :
            /\ \A j \in i..e : path[j] # Separator
            /\ i > 1 => path[i - 1] = Separator

OrdinaryName(name) == name # <<>> /\ name # Dot /\ name # DotDot

\* C13 as stated: for every path the result is the filename alone when the
\* directory part has no segment, and otherwise the last directory segment
\* and the filename with a separator between them (the segment alone being
\* accepted when the filename is empty).
C13_TruncateConcatenates ==
    LET path == fn.arg
        file == SubSeq(path, FileStart(path), Len(path))
        seg == SubSeq(path, SegmentStart(path), SegmentEnd(path))
    IN  fn.truncated =>
            IF SegmentEnd(path) = 0 THEN fn.file = file
            ELSE \/ fn.file = seg \o <<Separator>> \o file
                 \/ file = <<>> /\ fn.file = seg

\* C13 amended: for every path both functions return a result, the same
\* one; it is the filename alone when the directory part has no segment,
\* and otherwise what filepath.Join makes of the last directory segment and
\* the filename: the two with one separator between them when both are
\* names, and the cleaned path when one of them is empty, "." or "..".
C13_TruncateLastSegment ==
    LET path == fn.arg
        file == SubSeq(path, FileStart(path), Len(path))
        seg == SubSeq(path, SegmentStart(path), SegmentEnd(path))
    IN  /\ (fn.truncated /\ fn.parsed) => fn.file = fn.name
        /\ fn.truncated =>
              IF SegmentEnd(path) = 0 THEN fn.file = file
              ELSE /\ fn.file = Join(<<seg, file>>)
                   /\ (OrdinaryName(seg) /\ OrdinaryName(file)) =>
                         fn.file = seg \o <<Separator>> \o file

\* "a/b/a" gives "b/a" from both.
C13_Witness ==
    /\ fn.arg = <<"a", "/", "b", "/", "a">>
    /\ fn.truncated /\ fn.parsed
    /\ fn.file = <<"b", "/", "a">>
    /\ fn.name = <<"b", "/", "a">>

(***************************************************************************)
(* SpecPost: postWriter.Write, writers.go:22-45.  Write starts the         *)
(* goroutine that POSTs before it prints, and returns what fmt.Println     *)
(* returned; the goroutine runs on its own, whenever the scheduler lets    *)
(* it.  Calls of Write may overlap, as the calls of output do.             *)
(***************************************************************************)
\* Calls of Write under SpecPost.
MaxWrites == 2

Urls == {"", "http://sink"}
Payloads == {"r1", "r2"}

\* What client.Post returns: whether err is non-nil, and the status of the
\* response, 0 for a nil response.  An error comes with no response (a
\* refused connection, the client's timeout) or, when a redirect is not
\* followed, with the response of the redirect.
PostResults ==
    {[err |-> FALSE, status |-> 299], [err |-> FALSE, status |-> 300],
     [err |-> TRUE, status |-> 0], [err |-> TRUE, status |-> 302]}

\* A slip: a line logged for every POST.
ReportsAlways(r) == <<"done">>

\* The lines the goroutine hands to the log package (writers.go:27-39).
Reports(r) ==
    (IF r.err THEN <<"postWriter error">> ELSE <<>>)
    \o (IF r.status = 0 THEN <<"nil client response">>
        ELSE IF r.status >= 300 THEN <<"postwriter error: status">>
        ELSE <<>>)

\* A slip: a second goroutine for the same bytes.
SpawnedTwice(url, w, p) ==
    IF url # ""
    THEN <<[w |-> w, url |-> url, p |-> p, pc |-> "post"],
           [w |-> w, url |-> url, p |-> p, pc |-> "post"]>>
    ELSE <<>>

\* if w != "" { go func(url string, p []byte) {...}(string(w), p) }
Spawned(url, w, p) ==
    IF url # ""
    THEN <<[w |-> w, url |-> url, p |-> p, pc |-> "post"]>>
    ELSE <<>>

\* fmt.Println(string(p)): n, err.
Println(p, err) == [n |-> IF err THEN 0 ELSE 1, err |-> err]

InitPost ==
    /\ loggers = <<>>
    /\ arrays = <<>>
    /\ ghost = <<>>
    /\ call = NoCall
    /\ exited = -1
    /\ procs = <<>>
    /\ carried = <<>>
    /\ fn = <<>>
    /\ \E url \in Urls :
          net = [url |-> url, writes |-> <<>>, posts |-> <<>>,
                 stdout |-> <<>>, log |-> <<>>]

\* w.Write(p) is called.
BeginWrite(p) ==
    /\ net' = [net EXCEPT !.writes =
                  Append(@, [p |-> p, pc |-> "go", ret |-> Println(p, FALSE)])]
    /\ UNCHANGED <<loggers, arrays, ghost, call, exited, procs, carried, fn>>

\* The go statement (writers.go:23-41).
Spawn(w) ==
    /\ net.writes[w].pc = "go"
    /\ net' = [net EXCEPT !.writes[w].pc = "print",
                          !.posts = @ \o Spawned(net.url, w, net.writes[w].p)]
    /\ UNCHANGED <<loggers, arrays, ghost, call, exited, procs, carried, fn>>

\* return fmt.Println(string(p))   (writers.go:44)
PrintLocal(w, err) ==
    /\ net.writes[w].pc = "print"
    /\ net' = [net EXCEPT !.writes[w].pc = "done",
                          !.writes[w].ret = Println(net.writes[w].p, err),
                          !.stdout = Append(@, [w |-> w, p |-> net.writes[w].p,
                                                ret |-> Println(net.writes[w].p, err)])]
    /\ UNCHANGED <<loggers, arrays, ghost, call, exited, procs, carried, fn>>

\* The goroutine: client.Post returns r, the lines are logged, it ends.
\* Each line remembers whether the Write it belongs to had returned.
PostDone(j, r) ==
    /\ net.posts[j].pc = "post"
    /\ LET w == net.posts[j].w
           lines == Reports(r)
       IN  net' = [net EXCEPT
                      !.posts[j] = [w |-> w, url |-> net.posts[j].url,
                                    p |-> net.posts[j].p, pc |-> "done",
                                    err |-> r.err, status |-> r.status],
                      !.log = @ \o [i \in 1..Len(lines) |->
                                      [w |-> w, j |-> j, line |-> lines[i],
                                       local |-> net.writes[w].pc = "done"]]]
    /\ UNCHANGED <<loggers, arrays, ghost, call, exited, procs, carried, fn>>

NextPost ==
    \/ \E p \in Payloads : Len(net.writes) < MaxWrites /\ BeginWrite(p)
    \/ \E w \in 1..Len(net.writes) : Spawn(w)
    \/ \E w \in 1..Len(net.writes), err \in BOOLEAN : PrintLocal(w, err)
    \/ \E j \in 1..Len(net.posts), r \in PostResults : PostDone(j, r)

SpecPost == InitPost /\ [][NextPost]_vars

PostsOf(w) == {j \in 1..Len(net.posts) : net.posts[j].w = w}
LinesOf(w) == {i \in 1..Len(net.stdout) : net.stdout[i].w = w}

\* C14: a Write that has returned has printed its bytes exactly once and
\* has returned what the print returned, whatever became of the POST; a
\* Write starts at most one POST, of the same bytes to the configured URL,
\* and none when the URL is empty; a POST is made once.
C14_LocalWriteOnceOnePost ==
    \A w \in 1..Len(net.writes) :
        /\ Cardinality(LinesOf(w)) <= 1
        /\ net.writes[w].pc = "done" =>
              /\ Cardinality(LinesOf(w)) = 1
              /\ \A i \in LinesOf(w) :
                    /\ net.stdout[i].p = net.writes[w].p
                    /\ net.writes[w].ret = net.stdout[i].ret
        /\ Cardinality(PostsOf(w)) <= 1
        /\ net.url = "" => PostsOf(w) = {}
        /\ (net.url # "" /\ net.writes[w].pc # "go") =>
              Cardinality(PostsOf(w)) = 1
        /\ \A j \in PostsOf(w) :
              net.posts[j].p = net.writes[w].p /\ net.posts[j].url = net.url

\* A Write that has returned while its POST is still on its way.
C14_Witness ==
    \E w \in 1..Len(net.writes) :
        /\ net.writes[w].pc = "done"
        /\ ~net.writes[w].ret.err
        /\ \E j \in PostsOf(w) : net.posts[j].pc = "post"

\* What client.Post returned was a failure of the delivery.
Failed(post) == post.err \/ post.status = 0 \/ post.status >= 300

\* C19 as stated: whenever a failure of the delivery of a record is in the
\* log, the local write of that record has been done.
C19_ReportAfterLocalWrite ==
    \A i \in 1..Len(net.log) : LinesOf(net.log[i].w) # {}

\* C19 amended: a line is in the log only for a POST that has failed, and
\* only once the Write of its record has started that POST; the local write
\* of the record may come before the line or after it, and is done once by
\* the time Write returns, whether there is a line or not.
C19_ReportOnlyAfterSpawn ==
    \A i \in 1..Len(net.log) :
        LET w == net.log[i].w
            j == net.log[i].j
        IN  /\ net.posts[j].w = w
            /\ net.posts[j].pc = "done"
            /\ Failed(net.posts[j])
            /\ net.writes[w].pc \in {"print", "done"}
            /\ net.writes[w].pc = "done" => Cardinality(LinesOf(w)) = 1

\* A failure that was logged before the local write of its record, which
\* was done all the same.
C19_Witness ==
    \E i \in 1..Len(net.log) :
        /\ ~net.log[i].local
        /\ net.writes[net.log[i].w].pc = "done"
        /\ Cardinality(LinesOf(net.log[i].w)) = 1

(***************************************************************************)
(* Properties of Spec: what a Logger is, apart from its buffer.            *)
(***************************************************************************)
Identity(l) == <<l.app, l.level, l.out>>

\* C15: every Logger has the application name, the threshold and the sink
\* of the root it was derived from, and no call, With or severity, changes
\* the name, the threshold or the sink of a Logger that exists.
C15_IdentityFixed ==
    /\ [](\A l \in Ids : Identity(loggers[l]) = Identity(loggers[1]))
    /\ [][\A l \in Ids : Identity(loggers'[l]) = Identity(loggers[l])]_vars

\* A severity call made on a Logger derived from a root whose threshold is
\* not the default.
C15_Witness ==
    /\ Len(loggers) = 2
    /\ ghost[2].parent = 1
    /\ loggers[1].level = ErrorLevel
    /\ Identity(loggers[2]) = <<AppName, ErrorLevel, "stdout">>
    /\ call.op = "Severity" /\ call.l = 2

(***************************************************************************)
(* More properties of SpecConc.                                            *)
(***************************************************************************)
\* The statements that read or replace l.data.
Accessing == {"copy", "reset", "greset", "wread"}

\* C16: a goroutine executes a statement that reads or resets the buffer
\* of a Logger only while it holds the mutex of that Logger.
C16_BufferUnderLock ==
    [][\A g \in Goroutines :
          (procs[g].pc \in Accessing /\ procs'[g] # procs[g]) =>
              procs[g].holds /\ loggers[procs[g].l].mutex]_vars

\* C17: a call that is serializing its record or writing it to the sink
\* does not hold the mutex.
C17_NoLockWhileWriting ==
    \A g \in Goroutines :
        procs[g].pc \in {"marshal", "write"} => ~procs[g].holds

\* One call is at the sink's Write while another call on the same Logger
\* holds the mutex and takes its snapshot.
C17_Witness ==
    \E g, h \in Goroutines :
        /\ procs[g].l = procs[h].l
        /\ procs[g].pc = "write"
        /\ procs[h].pc = "copy" /\ procs[h].holds

(***************************************************************************)
(* SpecConcFair: SpecConc with a scheduler that lets every goroutine run   *)
(* (weak fairness of the steps that wait for nothing) and a sync.Mutex     *)
(* that does not starve a waiter: a goroutine that has waited long is      *)
(* handed the mutex at the next Unlock (the starvation mode of             *)
(* sync.Mutex), which is strong fairness of Lock.  The sink's Write        *)
(* returns: WriteOut is one of the steps that wait for nothing.            *)
(***************************************************************************)
Run(g) ==
    Copy(g) \/ Reset(g) \/ Unlock(g) \/ MarshalOut(g) \/ WriteOut(g)

\* After root := New(...); d := root.With(Data{"k": "v1"}): two Loggers for
\* the goroutines to call, one of them with a field pending.
InitFair ==
    LET root == New(AppName, NoticeLevel)
        st == MergeAll([set |-> CopyData(root.data), arrays |-> <<UserArray>>],
                       ConcData)
    IN  /\ loggers = WithLoggers(<<root>>, 1, st.set)
        /\ arrays = st.arrays
        /\ ghost = <<RootGhost,
                     [parent |-> 1,
                      own |-> Len(Supplied(ConcData, <<UserArray>>)),
                      hist |-> Supplied(ConcData, <<UserArray>>),
                      merged |-> DataView(st.set, st.arrays),
                      used |-> FALSE,
                      chain |-> TRUE]>>
        /\ call = NoCall
        /\ exited = -1
        /\ procs = [g \in Goroutines |-> Idle]
        /\ carried = <<0, 0>>
        /\ net = <<>>
        /\ fn = <<>>

NextFair ==
    \/ \E g \in Goroutines, i \in Ids, level \in {InfoLevel, ErrorLevel} :
          StartSeverity(g, i, level)
    \/ \E g \in Goroutines : Lock(g)
    \/ \E g \in Goroutines : Copy(g)
    \/ \E g \in Goroutines : Reset(g)
    \/ \E g \in Goroutines : Unlock(g)
    \/ \E g \in Goroutines : MarshalOut(g)
    \/ \E g \in Goroutines : WriteOut(g)

SpecConcFair ==
    /\ InitFair
    /\ [][NextFair]_vars
    /\ \A g \in Goroutines : WF_vars(Run(g)) /\ SF_vars(Lock(g))

InOutput == {"lock", "copy", "reset", "unlock", "marshal", "write",
             "glock", "greset", "gunlock"}

\* C18: every severity call returns, and once every call has returned no
\* mutex is held.
C18_CallsReturn ==
    /\ \A g \in Goroutines :
          (procs[g].pc \in InOutput) ~> (procs[g].pc = "idle")
    /\ []((\A g \in Goroutines : procs[g].pc = "idle") =>
              \A l \in Ids : ~loggers[l].mutex)

\* A call waits for the mutex another call holds, on a Logger for which a
\* record with fields has been written already.
C18_Witness ==
    \E g, h \in Goroutines :
        /\ procs[g].l = procs[h].l
        /\ procs[g].pc \in {"lock", "glock"}
        /\ procs[h].holds
        /\ carried[procs[g].l] = 1

(***************************************************************************)
(* SpecSetup: SetupLogger (logger.go:225-229) and what its caller does     *)
(* with the Logger it returns: severity calls on it, With on it, severity  *)
(* calls on the Loggers derived from it.  The root that SetupLogger makes  *)
(* with New is known to nobody else.                                       *)
(***************************************************************************)
\* Logger instances under SpecSetup.
MaxSetupLoggers == 3

\* Values of LOG_LEVEL: absent (""), "debug", "ERROR", "warn".
EnvValues ==
    {<<>>, LabelRunes[DebugLevel], Variant(ErrorLevel, 1..5, FALSE),
     <<"w", "a", "r", "n">>}

Builds == {"b1", "b2"}

\* Data{"build": build}
BuildData(build) ==
    [k \in Keys |-> IF k = "build" THEN Scalar(build) ELSE Absent]

\* A slip: the Logger of New returned through a With of nothing.
SetupLoggerNoBuild(name, build, env) ==
    LET root == New(name, ToLevel(env))
    IN  [loggers |-> WithLoggers(<<root>>, 1, CopyData(root.data)),
         arrays |-> <<UserArray>>]

\* return New(name, logLevel).With(Data{"build": build}), with
\* logLevel = ToLevel(os.Getenv("LOG_LEVEL")): the Loggers there are
\* afterwards, the returned one last, and the heap.
SetupLogger(name, build, env) ==
    LET root == New(name, ToLevel(env))
        st == MergeAll([set |-> CopyData(root.data), arrays |-> <<UserArray>>],
                       <<BuildData(build)>>)
    IN  [loggers |-> WithLoggers(<<root>>, 1, st.set), arrays |-> st.arrays]

\* The Logger SetupLogger returned.
Returned == 2

InitSetup ==
    /\ \E env \in EnvValues, build \in Builds :
          LET r == SetupLogger(AppName, build, env)
          IN  /\ loggers = r.loggers
              /\ arrays = r.arrays
              /\ ghost = <<RootGhost,
                           [parent |-> 1,
                            own |-> 1,
                            hist |-> Supplied(<<BuildData(build)>>, r.arrays),
                            merged |-> DataView(r.loggers[Returned].data,
                                                r.arrays),
                            used |-> FALSE,
                            chain |-> TRUE]>>
    /\ call = NoCall
    /\ exited = -1
    /\ AuxIdle

NextSetup ==
    \/ \E p \in Ids \ {1}, data \in SmallLists :
          Len(loggers) < MaxSetupLoggers /\ With(p, data)
    \/ \E i \in Ids \ {1}, level \in Levels, err \in BOOLEAN :
          Severity(i, level, err)

SpecSetup == InitSetup /\ [][NextSetup]_vars

\* The last call wrote a record with the "build" field in it.
CarriesBuild ==
    /\ call.writes # <<>>
    /\ Payload.kind = "json"
    /\ Payload.data["build"] # VAbsent

\* C20: of the severity calls on the Logger SetupLogger returned only the
\* first can write a record with the "build" field, and it does when it
\* passes the gate; when it is gated it writes nothing and the field is
\* gone: after any call the buffer of that Logger is empty, and no later
\* call writes the field.
C20_BuildAtMostOnce ==
    (call.op = "Severity" /\ call.l = Returned) =>
        /\ CarriesBuild <=> (call.first /\ ~call.gated)
        /\ call.gated => call.writes = <<>>
        /\ loggers[Returned].data = EmptyData

\* The first call on the returned Logger passed the gate and carried the
\* field, under a threshold LOG_LEVEL chose.
C20_Witness ==
    /\ call.op = "Severity" /\ call.l = Returned
    /\ call.first /\ ~call.gated
    /\ loggers[Returned].level = ErrorLevel
    /\ Payload.data["build"] = VScalar("b1")
    /\ Payload.data["k"] = VAbsent

====
